---------------------------- MODULE Spec2Model ----------------------------
(***************************************************************************)
(* Shockley-Queisser limit calculator (ShockleyQueisserCore.py).           *)
(*                                                                         *)
(* Fixed-point units of the model (the code works in floating point):      *)
(*   wavelength   0.1 nm            irradiance  1 W/m2/nm                  *)
(*   bandgap, photon energy  1 meV  temperature 1 K   concentration 1 sun  *)
(*   kTeV         1 micro-eV        voltage     1 mV                       *)
(*   current      1 A/m2 (solver),  0.01 mA/cm2 (stored SQ/Target current) *)
(*   SolarPower   kept as twice the trapezoid sum, in 0.1 W/m2 (P2 = 20 P) *)
(* Conditions of the code on reals (w <= nmeV / Bandgap) are evaluated     *)
(* exactly by cross-multiplication; quotients the code stores are floored. *)
(***************************************************************************)
EXTENDS Integers, Sequences, FiniteSets, TLC

VARIABLES
    file,                 \* the table read from SolarSpectrumAMX (environment)
    alive,                \* FALSE once os._exit(1) was called
    SpectrumLoaded,
    SolarSpectrumData,    \* sequence of rows <<wavelength, irradiance>>
    SolarPower,
    WavelengthMin, WavelengthMax,
    BandgapMin, BandgapMax,
    BandgapRange,         \* sequence of bandgaps, <<>> while None
    CounterMax, Counter,
    Temperature, kTeV, SolarConcentration,
    Target_Bandgap, Target_Bandgap_Top,
    OutputFilename,
    SQ_Done,
    Bandgap, Efficiency,  \* the sweep curve
    SQ,                   \* the SQ_* results of the sweep
    Target,               \* the Target_* results
    call,                 \* history of the last operation (observation only)
    DJ,                   \* ShockleyQueisserDJ.py: the bandgap pair in progress
    TJ,                   \* ShockleyQueisserTJ.py: the three cells
    GUI                   \* the window, its worker thread and its timers

vars == <<file, alive, SpectrumLoaded, SolarSpectrumData, SolarPower,
          WavelengthMin, WavelengthMax, BandgapMin, BandgapMax, BandgapRange,
          CounterMax, Counter, Temperature, kTeV, SolarConcentration,
          Target_Bandgap, Target_Bandgap_Top, OutputFilename, SQ_Done,
          Bandgap, Efficiency, SQ, Target, call, DJ, TJ, GUI>>

----------------------------------------------------------------------------
(* Program constants, in the units above.                                  *)

nmeV == 12398421
\* 1239.84207 eV nm

MinRows == 100
WavelengthLow == 2000
\* 200.0 nm
WavelengthHigh == 100000
\* 10000.0 nm
IrradianceHigh == 10
PowerLow == 20
\* 1.0 W/m2
PowerHigh == 200000
\* 10000.0 W/m2
EdgeMargin == 100
\* 10.0 nm

TemperatureLow == 100
TemperatureHigh == 700
TemperatureDefault == 300
BandgapLow == 200
\* 0.2 eV
BandgapHigh == 6000
\* 6.0 eV
TemperatureBandgapHigh == 700000
\* the 700.0 of line 245, compared with TargetBandgap (eV)
BandgapDefault == 1100
\* 1.1 eV
ConcentrationLow == 1
ConcentrationHigh == 1000
ConcentrationDefault == 1
kTeV300 == 25852
\* 0.02585202874091 eV
MathExpMax == 709
\* math.exp raises OverflowError above exp(709.78)
LnPlanckScale == 18880
\* 1000 * ln(2 pi q^4 / (h^3 c^2)), in A/m2/eV^3

(* Bounds of the model.                                                    *)
Resolution == 4
\* samples of the bandgap sweep (500 in the code)
VoltageSteps == 3
\* steps of the J-V voltage sweep (500 in the code)
MaxCalls == 3
\* calculate() calls in one behaviour

----------------------------------------------------------------------------
(* Helpers.                                                                *)

Max(a, b) == IF a >= b THEN a ELSE b
Min(a, b) == IF a <= b THEN a ELSE b

RECURSIVE Pow2(_)
Pow2(n) == IF n <= 0 THEN 1 ELSE 2 * Pow2(n - 1)

RECURSIVE Log2(_)
Log2(n) == IF n <= 1 THEN 0 ELSE 1 + Log2(n \div 2)

\* 1000 * ln(n) for an integer n >= 1: the binary logarithm from the leading
\* bit k and a quadratic in the next ten bits f
LnBits(k, f) ==
    ((1000 * k + (1000 * f) \div 1024 + (344 * f * (1024 - f)) \div 1048576) * 6931)
        \div 10000

LnScaled(n, k) ==
    LnBits(k, (IF k >= 10 THEN n \div Pow2(k - 10) ELSE n * Pow2(10 - k)) - 1024)

Ln(n) == LnScaled(n, Log2(n))

\* 1024 * exp(-x / 1000) for x >= 0
ExpK(x) ==
    IF x >= 8000 THEN 0
    ELSE LET b == (x * 14427) \div 10000
             r == b % 1000
         IN  (1024 - (672 * r) \div 1000 + (160 * r * r) \div 1000000) \div Pow2(b \div 1000)

\* (a / b) * 1000 for a >= 0 and b > 0, capped at 30000, without overflow
Ratio1000(a, b) ==
    IF a \div b >= 30 THEN 30000
    ELSE (a \div b) * 1000 + ((a % b) * 1000) \div b

Wavelength(data) == [i \in DOMAIN data |-> data[i][1]]
Irradiance(data) == [i \in DOMAIN data |-> data[i][2]]

\* twice the trapezoid sum of y over x between the indices lo and hi:
\* sp.trapz(y[lo..hi], x = x[lo..hi]) * 2
RECURSIVE Trapz2(_, _, _, _)
Trapz2(y, x, lo, hi) ==
    IF lo >= hi THEN 0
    ELSE IF hi = lo + 1 THEN (y[lo] + y[hi]) * (x[hi] - x[lo])
    ELSE Trapz2(y, x, lo, (lo + hi) \div 2) + Trapz2(y, x, (lo + hi) \div 2, hi)

\* isIncSorted: strictly increasing
isIncSorted(arr) ==
    \A ii \in 1..(Len(arr) - 1) : ~(arr[ii + 1] <= arr[ii])


----------------------------------------------------------------------------
(* loadSpectrum, lines 524-581: the outcome of reading `table`.  ok = FALSE *)
(* is the except branch, which ends the process (os._exit(1)).             *)

ArangeLength(span) ==
    \* np.arange takes ceil((bmax - bmin) / step) samples for the stored step
    \* (bmax - bmin) / 500.0: one more than Resolution when the step, rounded
    \* to the nearest value that can be stored, is below the exact quotient
    IF (span % Resolution > 0) /\ (2 * (span % Resolution) < Resolution)
    THEN Resolution + 1 ELSE Resolution

BandgapRangeOf(bmin, bmax) ==
    \* np.arange(bmin, bmax, (bmax - bmin) / 500.0): the samples
    \* bmin + k * step, the end point bmax excluded unless the rounding of the
    \* step lets it in
    [k \in 1..ArangeLength(IF bmax >= bmin THEN bmax - bmin ELSE bmin - bmax) |->
        bmin + ((k - 1) * (bmax - bmin)) \div Resolution]

DataConsistent(table) ==
    \* lines 537-544 (both columns of the loaded array have the same length)
    /\ ~(Len(table) < MinRows)
    /\ \A i \in DOMAIN table : table[i][1] >= WavelengthLow
    /\ \A i \in DOMAIN table : table[i][1] <= WavelengthHigh
    /\ \A i \in DOMAIN table : table[i][2] >= 0
    /\ \A i \in DOMAIN table : table[i][2] <= IrradianceHigh
    /\ isIncSorted(Wavelength(table))

SolarPowerOf(table) ==
    Trapz2(Irradiance(table), Wavelength(table), 1, Len(table))

PowerValidOpen(table) ==
    \* a variant that also refuses the two limits
    (SolarPowerOf(table) > PowerLow) /\ (SolarPowerOf(table) < PowerHigh)

PowerValid(table) ==
    \* line 550
    ~((SolarPowerOf(table) < PowerLow) \/ (SolarPowerOf(table) > PowerHigh))

loadSpectrum(table) ==
    LET wmin == table[1][1] + EdgeMargin
        wmax == table[Len(table)][1] - EdgeMargin
        bmin == nmeV \div wmax
        bmax == nmeV \div wmin
    IN  IF ~DataConsistent(table) THEN [ok |-> FALSE, why |-> "invalid wavelength/irradiance"]
        ELSE IF ~PowerValid(table) THEN [ok |-> FALSE, why |-> "invalid total power density"]
        ELSE IF wmin = wmax
             \* BandgapMax = BandgapMin: np.arange with a zero step raises
             THEN [ok |-> FALSE, why |-> "arange"]
        ELSE [ok |-> TRUE, why |-> "",
              power |-> SolarPowerOf(table),
              wmin |-> wmin, wmax |-> wmax, bmin |-> bmin, bmax |-> bmax,
              range |-> BandgapRangeOf(bmin, bmax)]

----------------------------------------------------------------------------
(* calculateEfficiency, lines 596-649.  The engine state it reads is       *)
(* passed in: data, bmin, bmax, power (SolarPower), SC (SolarConcentration)*)
(* and kT (kTeV).  Gap and GapTop are the arguments Bandgap, BandgapTop.   *)
(*                                                                         *)
(* The domain test, the wavelength selection, the trapezoid sum of aJSC    *)
(* and the places where the code raises are exact.  The floating point     *)
(* values of lines 616-635 are computed in fixed point: aJ0 spans a        *)
(* hundred decades, so it is held as 1000 * ln(aJ0 / (A/m2)); exp and ln   *)
(* are ExpK and Ln above, good to about one part in a hundred.             *)

ErrorOutcome(msg) ==
    \* line 643
    [Eff |-> 0, VOC |-> 0, JSC |-> 0, FF |-> 0, Vm |-> 0, Jm |-> 0,
     Voltage |-> << >>, Current |-> << >>, strRet |-> msg]

CutSpectrum(bmin, bmax, Gap, GapTop) ==
    \* line 605
    (GapTop > Gap) /\ (GapTop >= bmin) /\ (GapTop <= bmax)

SelectedCutAnywhere(data, bmin, bmax, Gap, GapTop) ==
    \* a variant that cuts at any top bandgap above the bandgap
    {i \in DOMAIN data :
        /\ data[i][1] * Gap <= nmeV
        /\ (GapTop > Gap => data[i][1] * GapTop >= nmeV)}

SelectedBelowGap(data, bmin, bmax, Gap, GapTop) ==
    \* a variant that keeps the photons the cell cannot absorb
    {i \in DOMAIN data : data[i][1] * Gap >= nmeV}

Selected(data, bmin, bmax, Gap, GapTop) ==
    \* lines 603-612: aLambdaLow <= wavelength <= aLambda, aLambda = nmeV / Gap
    {i \in DOMAIN data :
        /\ data[i][1] * Gap <= nmeV
        /\ (CutSpectrum(bmin, bmax, Gap, GapTop) => data[i][1] * GapTop >= nmeV)}

\* the wavelengths increase, so the selected rows are consecutive: the first
\* one, and the last one from their number
SetMin(S) == CHOOSE x \in S : \A y \in S : x <= y
SetMax(S) == SetMin(S) + Cardinality(S) - 1

aJSCOf(data, SC, lo, hi) ==
    \* lines 613-615: q * trapz(SC * irradiance * wavelength * 1e-9 / hc), in
    \* A/m2 (250000 model units of the doubled sum), rounded up
    LET flux == [i \in DOMAIN data |-> data[i][2] * data[i][1]]
    IN  SC * ((Trapz2(flux, Wavelength(data), lo, hi) + 249999) \div 250000)

PlanckOverflow(data, kT, lo) ==
    \* line 588: math.exp(tE / kTJ) raises OverflowError; the largest energy
    \* is that of the first selected sample
    ((nmeV \div data[lo][1]) * 1000) \div kT > MathExpMax

Energy(data, i) ==
    \* line 611: nmeV / aWavelength, in 10 micro-eV
    (100 * nmeV) \div data[i][1]

aJ0Of(data, kT, lo, hi) ==
    \* lines 616-617 with PlanckDistribution (lines 583-592):
    \* q * trapz(aPlanck, x = aEnergy) over the selected samples lo..hi, as
    \* 1000 * ln(aJ0).  With Eh the smallest selected energy (sample hi) and
    \* u = (E - Eh) / kTeV, the integral of E^2 / (exp(E / kTeV) - 1) is
    \* Eh^2 * kTeV * exp(-Eh / kTeV) * trapz(f, u),
    \* f = (E / Eh)^2 * exp(-u) / (1 - exp(-E / kTeV)).
    LET Eh == Energy(data, hi)
        u  == [i \in DOMAIN data |-> Ratio1000(10 * (Energy(data, i) - Eh), kT)]
        f  == [i \in DOMAIN data |->
                  LET r == (32 * Energy(data, i)) \div Eh
                      w == (r * r * ExpK(u[i])) \div 1024
                  IN  (w * 1024) \div (1024 - ExpK(Ratio1000(10 * Energy(data, i), kT)))]
        S2 == Max(1, -Trapz2(f, u, lo, hi))
    IN  LnPlanckScale + 2 * (Ln(Eh) - 11513) + (Ln(kT) - 13816)
            - ((Eh \div kT) * 10000 + ((Eh % kT) * 10000) \div kT)
            + (Ln(S2) - 14532)

Log1p(L) ==
    \* 1000 * log(exp(L / 1000) + 1)
    IF L >= 8000 THEN L
    ELSE IF L >= 0 THEN L + Ln(1024 + ExpK(L)) - Ln(1024)
    ELSE IF L > -8000 THEN Ln(1024 + ExpK(-L)) - Ln(1024)
    ELSE 0

LogRatio(data, kT, lo, hi, aJSC) ==
    \* line 618: 1000 * log(aJSC / aJ0 + 1)
    Log1p(Ln(aJSC) - aJ0Of(data, kT, lo, hi))

DarkCurrent(aJSC, kT, aVOC, aV) ==
    \* line 626: aJ0 * (exp(aV / kTeV) - 1), which is
    \* aJSC * (exp(aV / kTeV) - 1) / (exp(aVOC / kTeV) - 1) by line 618
    \* (g / 1024 of aJSC; past aVOC the growth is capped at 8 aJSC)
    LET n == Ratio1000(1000 * aVOC, kT)
        v == Ratio1000(1000 * aV, kT)
        d == Ratio1000(1000 * (IF aV < aVOC THEN aVOC - aV ELSE aV - aVOC), kT)
        g == IF aV = aVOC THEN 1024
             ELSE IF aV < aVOC
                  THEN (ExpK(d) * (1024 - ExpK(v))) \div Max(1, 1024 - ExpK(n))
             ELSE Min(8192, 1048576 \div Max(1, ExpK(d)))
    IN  (aJSC \div 1024) * g + ((aJSC % 1024) * g) \div 1024

aVoltageOf(aVOC, aVstep) ==
    \* line 620: np.arange(0.0, aVOC + aVstep, aVstep)
    [k \in 1..((aVOC + 2 * aVstep - 1) \div aVstep) |-> (k - 1) * aVstep]

Product(aJ, aV) ==
    \* aJ * aV in W/m2, for aJ in A/m2 and aV in mV, rounded towards zero
    LET m == IF aJ < 0 THEN -aJ ELSE aJ
        p == (m \div 1000) * aV + ((m % 1000) * aV) \div 1000
    IN  IF aJ < 0 THEN -p ELSE p

RECURSIVE MaxPower(_, _, _)
MaxPower(aVoltage, aCurrent, k) ==
    \* lines 622-634: the first sample with the largest |aJ * aV| among aJ < 0,
    \* over the samples 1..k; index 0 when the branch of line 628 is never taken
    IF k = 0 THEN [index |-> 0, aPm |-> 0]
    ELSE LET before == MaxPower(aVoltage, aCurrent, k - 1)
         IN  IF (aCurrent[k] < 0) /\ (-Product(aCurrent[k], aVoltage[k]) > before.aPm)
             THEN [index |-> k, aPm |-> -Product(aCurrent[k], aVoltage[k])]
             ELSE before

RECURSIVE MinProduct(_, _, _)
MinProduct(aVoltage, aCurrent, k) ==
    \* np.min(aCurrent * aVoltage) over the samples 1..k, k >= 1
    IF k = 1 THEN Product(aCurrent[1], aVoltage[1])
    ELSE Min(Product(aCurrent[k], aVoltage[k]), MinProduct(aVoltage, aCurrent, k - 1))

EfficiencyOf(aPm, power, SC) ==
    \* line 635: 100 * aPm / (SolarPower * SolarConcentration), in percent,
    \* rounded up (a solved sample has an efficiency above 0)
    LET num == 2000 * (aPm \div SC) + (2000 * (aPm % SC)) \div SC
    IN  (num + power - 1) \div power

aCurrentOf(aJSC, kT, aVOC, aVoltage) ==
    \* lines 623-626
    [k \in DOMAIN aVoltage |-> (-aJSC) + DarkCurrent(aJSC, kT, aVOC, aVoltage[k])]

SolveResult(power, SC, aJSC, aVOC, aVoltage, aCurrent, mp) ==
    \* lines 635-641
    IF mp.index = 0
         \* aFF is read at line 636 without ever being assigned
         THEN ErrorOutcome("aFF")
    ELSE [Eff |-> EfficiencyOf(-MinProduct(aVoltage, aCurrent, Len(aVoltage)),
                               power, SC),
          VOC |-> aVOC, JSC |-> aJSC,
          FF |-> (100 * mp.aPm) \div Max(1, Product(aJSC, aVOC)),
          Vm |-> aVoltage[mp.index], Jm |-> aCurrent[mp.index],
          Voltage |-> aVoltage, Current |-> aCurrent, strRet |-> "None"]

SolveCurve(power, SC, aJSC, aVOC, aVoltage, aCurrent) ==
    \* lines 622-634
    SolveResult(power, SC, aJSC, aVOC, aVoltage, aCurrent,
                MaxPower(aVoltage, aCurrent, Len(aVoltage)))

SolveVoltage(power, SC, kT, aJSC, aVOC, aVoltage) ==
    \* line 621
    SolveCurve(power, SC, aJSC, aVOC, aVoltage, aCurrentOf(aJSC, kT, aVOC, aVoltage))

SolveFrom(power, SC, kT, aJSC, aVOC) ==
    \* lines 619-620
    IF aJSC = 0 \/ aVOC \div VoltageSteps = 0
         \* aVOC = 0: np.arange with a zero step raises
         THEN ErrorOutcome("arange")
    ELSE SolveVoltage(power, SC, kT, aJSC, aVOC,
                      aVoltageOf(aVOC, aVOC \div VoltageSteps))

aVOCOf(data, kT, lo, hi, aJSC) ==
    \* line 618: kTeV * log(aJSC / aJ0 + 1), in mV
    ((kT \div 10) * LogRatio(data, kT, lo, hi, aJSC)) \div 100000

SolveCell(data, power, SC, kT, lo, hi, aJSC) ==
    SolveFrom(power, SC, kT, aJSC, aVOCOf(data, kT, lo, hi, aJSC))

Solve(data, power, SC, kT, lo, hi) ==
    \* lines 613-636, for a selection lo..hi of at least two samples whose
    \* Planck terms are finite
    SolveCell(data, power, SC, kT, lo, hi, aJSCOf(data, SC, lo, hi))

BelowDomain(bmin, bmax, Gap) ==
    \* a variant that tests the lower limit only
    Gap < bmin

OutsideDomain(bmin, bmax, Gap) ==
    \* line 600
    (Gap < bmin) \/ (Gap > bmax)

calculateEfficiency(data, bmin, bmax, power, SC, kT, Gap, GapTop) ==
    LET sel == Selected(data, bmin, bmax, Gap, GapTop)
    IN  IF OutsideDomain(bmin, bmax, Gap) THEN ErrorOutcome("invalid bandgap")
        ELSE IF Cardinality(sel) > 0 /\ PlanckOverflow(data, kT, SetMin(sel))
             \* line 616
             THEN ErrorOutcome("math range error")
        ELSE IF Cardinality(sel) < 2
             \* the trapezoid sums of lines 615 and 617 are 0: aVOC is nan and
             \* np.arange raises at line 620
             THEN ErrorOutcome("arange")
        ELSE Solve(data, power, SC, kT, SetMin(sel), SetMax(sel))


----------------------------------------------------------------------------
(* The engine object.  A value that may be None is a sequence of length at *)
(* most one; an attribute that calculate() creates is Unset before.        *)

None == << >>
Some(v) == << v >>
Unset == -1

NoResults ==
    \* lines 168-189
    [Efficiency |-> None, JSC |-> None, VOC |-> None, FF |-> None, Vm |-> None,
     Jm |-> None, Bandgap |-> None, Voltage |-> None, Current |-> None]

Scaled(aCurrent) ==
    \* 0.1 * np.copy(aCurrent): A/m2 to mA/cm2, held in 0.01 mA/cm2
    [k \in DOMAIN aCurrent |-> 10 * aCurrent[k]]

kTeVOf(T) == (kTeV300 * T) \div 300

SweepStart(sq) ==
    \* lines 830-836: SQ_Vm and SQ_Jm are not reset
    [sq EXCEPT !.Efficiency = Some(0), !.JSC = Some(0), !.VOC = Some(0),
               !.FF = Some(0), !.Bandgap = Some(0),
               !.Voltage = Some(<< >>), !.Current = Some(<< >>)]

SweepSampleUncounted(st, aGap, r) ==
    \* a variant that leaves the progress counter alone
    [st EXCEPT
        !.sq = IF r.Eff > st.sq.Efficiency[1]
               THEN [Efficiency |-> Some(r.Eff), JSC |-> Some(r.JSC),
                     VOC |-> Some(r.VOC), FF |-> Some(r.FF), Vm |-> Some(r.Vm),
                     Jm |-> Some(r.Jm), Bandgap |-> Some(aGap),
                     Voltage |-> Some(r.Voltage),
                     Current |-> Some(Scaled(r.Current))]
               ELSE st.sq,
        !.Bandgap = Append(st.Bandgap, aGap),
        !.Efficiency = Append(st.Efficiency, r.Eff),
        !.evals = st.evals + 1]

SweepSampleLatest(st, aGap, r) ==
    \* a variant in which a sample that equals the running maximum replaces it
    [st EXCEPT
        !.sq = IF r.Eff >= st.sq.Efficiency[1]
               THEN [Efficiency |-> Some(r.Eff), JSC |-> Some(r.JSC),
                     VOC |-> Some(r.VOC), FF |-> Some(r.FF), Vm |-> Some(r.Vm),
                     Jm |-> Some(r.Jm), Bandgap |-> Some(aGap),
                     Voltage |-> Some(r.Voltage),
                     Current |-> Some(Scaled(r.Current))]
               ELSE st.sq,
        !.Bandgap = Append(st.Bandgap, aGap),
        !.Efficiency = Append(st.Efficiency, r.Eff),
        !.Counter = st.Counter + 1,
        !.evals = st.evals + 1]

SweepSample(st, aGap, r) ==
    \* lines 852-867, for a sample that was solved
    [st EXCEPT
        !.sq = IF r.Eff > st.sq.Efficiency[1]
               THEN [Efficiency |-> Some(r.Eff), JSC |-> Some(r.JSC),
                     VOC |-> Some(r.VOC), FF |-> Some(r.FF), Vm |-> Some(r.Vm),
                     Jm |-> Some(r.Jm), Bandgap |-> Some(aGap),
                     Voltage |-> Some(r.Voltage),
                     Current |-> Some(Scaled(r.Current))]
               ELSE st.sq,
        !.Bandgap = Append(st.Bandgap, aGap),
        !.Efficiency = Append(st.Efficiency, r.Eff),
        !.Counter = st.Counter + 1,
        !.evals = st.evals + 1]

SweepFailureRecorded(st, aGap, r) ==
    \* a variant that records the failed sample with its zero efficiency
    [st EXCEPT !.failed = TRUE, !.evals = st.evals + 1,
               !.Bandgap = Append(st.Bandgap, aGap),
               !.Efficiency = Append(st.Efficiency, r.Eff)]

SweepFailure(st, aGap, r) ==
    \* lines 841-851, for a sample that returned an error string: run returns
    \* there
    [st EXCEPT !.failed = TRUE, !.evals = st.evals + 1]

RECURSIVE Sweep(_, _, _, _)
Sweep(eng, range, sq0, k) ==
    \* lines 827-871: the state of the loop after the samples 1..k; failed
    \* when a sample returned an error string (line 850), which ends the loop
    IF k = 0
    THEN [sq |-> SweepStart(sq0), Bandgap |-> << >>, Efficiency |-> << >>,
          Counter |-> 0, evals |-> 0, failed |-> FALSE]
    ELSE LET st == Sweep(eng, range, sq0, k - 1)
             r  == calculateEfficiency(eng.data, eng.bmin, eng.bmax, eng.power,
                                       eng.SC, eng.kT, range[k], 0)
         IN  IF st.failed THEN st
             ELSE IF r.strRet # "None"
                  THEN SweepFailure(st, range[k], r)
             ELSE SweepSample(st, range[k], r)

TargetOf(r) ==
    \* lines 876-884: the tuple assignment, then the conversion of the current
    \* when the solve succeeded
    [Efficiency |-> Some(r.Eff), VOC |-> Some(r.VOC), JSC |-> Some(r.JSC),
     FF |-> Some(r.FF), Vm |-> Some(r.Vm), Jm |-> Some(r.Jm),
     Voltage |-> Some(r.Voltage),
     Current |-> Some(IF r.strRet = "None" THEN Scaled(r.Current) ELSE r.Current)]

NoTarget ==
    \* lines 182-189
    [Efficiency |-> None, VOC |-> None, JSC |-> None, FF |-> None, Vm |-> None,
     Jm |-> None, Voltage |-> None, Current |-> None]

ParametersValid(TB, T, SC) ==
    \* start, lines 761-766
    ~((TB < BandgapLow) \/ (TB > BandgapHigh) \/ (T < TemperatureLow)
      \/ (T > TemperatureHigh) \/ (SC < ConcentrationLow) \/ (SC > ConcentrationHigh))

TemperatureOf(T, TB) ==
    \* line 245
    IF (T >= TemperatureLow) /\ (TB <= TemperatureBandgapHigh) THEN T
    ELSE TemperatureDefault

TargetBandgapClamped(TB) ==
    \* a variant that clamps to the nearest limit instead of falling back
    IF TB < BandgapLow THEN BandgapLow ELSE IF TB > BandgapHigh THEN BandgapHigh ELSE TB

TargetBandgapOf(TB) ==
    \* line 250
    IF (TB >= BandgapLow) /\ (TB <= BandgapHigh) THEN TB ELSE BandgapDefault

TargetBandgapTopOf(TBT, TB) ==
    \* line 259
    IF (TBT >= BandgapLow) /\ (TBT <= BandgapHigh) /\ (TBT > TB) THEN TBT ELSE 0

SolarConcentrationOf(SC) ==
    \* line 262
    IF (SC >= ConcentrationLow) /\ (SC <= ConcentrationHigh) THEN SC
    ELSE ConcentrationDefault

SweepDiscarded(done, T, SC) ==
    \* a variant that never keeps the sweep from one call to the next
    FALSE

SweepInvalidated(done, T, SC) ==
    \* lines 231-233: the value of SQ_Done after them
    IF done /\ ((T # Temperature) \/ (SC # SolarConcentration)) THEN FALSE ELSE done

OutputFilenameOf(Out) ==
    \* lines 266-269
    IF Out # "" /\ Out # "out.pdf" THEN "out.pdf" ELSE Out

-----------------------------------------------------------------------------
(* Spectrum tables: the rows <<wavelength, irradiance>> of the file that     *)
(* loadSpectrum reads.                                                       *)

Uniform(n, w0, dw, irr) == [i \in 1..n |-> << w0 + (i - 1) * dw, irr >>]

WithRow(table, i, row) == [table EXCEPT ![i] = row]

TableFlat == Uniform(100, 3000, 100, 1)

TableDarkUV ==
    \* no irradiance below 400 nm: the cells of the widest gaps collect no photon
    [i \in 1..100 |-> << 3000 + (i - 1) * 100, IF i <= 10 THEN 0 ELSE 1 >>]

TableShort == Uniform(99, 3000, 100, 1)

EngineTables == {TableFlat, TableDarkUV, TableShort}

-----------------------------------------------------------------------------
(* The engine, used in command-line mode with verbose = False as the scripts  *)
(* of the repository do.                                                      *)

NoCall ==
    [op |-> "init", n |-> 0, TB |-> 0, TBT |-> 0, T |-> 0, SC |-> 0, Out |-> "",
     doneBefore |-> FALSE, TBefore |-> Unset, SCBefore |-> Unset,
     TBBefore |-> Unset, TBTBefore |-> Unset,
     started |-> FALSE, exited |-> FALSE, sweepEvals |-> 0, sweepFailed |-> FALSE,
     solvedUnloaded |-> FALSE, ret |-> None, saved |-> FALSE,
     sweepT |-> Unset, sweepSC |-> Unset, failedBefore |-> FALSE,
     sel |-> {}, edits |-> << >>, workerAlive |-> FALSE]

InitEngine ==
    \* __init__, lines 131-219
    /\ alive = TRUE
    /\ SpectrumLoaded = FALSE
    /\ SolarSpectrumData = << >>
    /\ SolarPower = Unset
    /\ WavelengthMin = 3000
    /\ WavelengthMax = 40000
    /\ BandgapMin = nmeV \div 40000
    /\ BandgapMax = nmeV \div 3000
    /\ BandgapRange = << >>
    /\ CounterMax = 0
    /\ Counter = 0
    /\ Temperature = Unset
    /\ kTeV = Unset
    /\ SolarConcentration = Unset
    /\ Target_Bandgap = Unset
    /\ Target_Bandgap_Top = Unset
    /\ OutputFilename = ""
    /\ SQ_Done = FALSE
    /\ Bandgap = << >>
    /\ Efficiency = << >>
    /\ SQ = NoResults
    /\ Target = NoTarget
    /\ call = NoCall

NoDJ ==
    \* ShockleyQueisserDJ.py, lines 29-50; aEff is the entry aEff[jj][ii] of the
    \* pair, zero until the combination stores it
    [GapT |-> 0, GapB |-> 0, aV |-> << >>, aJ |-> << >>, aVOCx |-> 0, cc |-> 0,
     ccx |-> 0, TBT |-> 0, aVx |-> << >>, aJx |-> << >>, aEff |-> 0,
     EffMax |-> 0, GapTopMax |-> 0, GapBotMax |-> 0, at |-> "idle"]

NoTJ ==
    \* ShockleyQueisserTJ.py, lines 34-42
    [aJSC |-> << >>, aVOC |-> << >>, aFF |-> << >>, aV |-> << >>, aJ |-> << >>,
     jj |-> 0, jjx |-> 0, aVOCx |-> 0, aVx |-> << >>, aJx |-> << >>,
     aEff |-> None, at |-> "idle"]

NoGUI ==
    \* lines 192-202: no window yet, no worker thread; workers counts the
    \* threads that are alive, timers the pending root.after callbacks,
    \* started the threads started so far, plots the calls of updatePlot, and
    \* useGUI is written by the first calculate()
    [useGUI |-> FALSE, GUIstarted |-> FALSE, running |-> FALSE, thread |-> "None",
     threadfinish |-> "None", workers |-> 0, timers |-> 0, started |-> 0,
     plots |-> 0]

InitScripts ==
    \* no multijunction script runs on this engine and no window is open
    /\ DJ = NoDJ
    /\ TJ = NoTJ
    /\ GUI = NoGUI

Init ==
    /\ file \in EngineTables
    /\ InitEngine
    /\ InitScripts

LoadedAgain ==
    \* a variant that reads the file at every run
    LET ld == loadSpectrum(file)
    IN  IF ld.ok
        THEN [ok |-> TRUE, fresh |-> TRUE, data |-> file, power |-> ld.power,
              wmin |-> ld.wmin, wmax |-> ld.wmax, bmin |-> ld.bmin,
              bmax |-> ld.bmax, range |-> ld.range]
        ELSE [ok |-> FALSE, fresh |-> FALSE, data |-> file, power |-> SolarPower,
              wmin |-> WavelengthMin, wmax |-> WavelengthMax, bmin |-> BandgapMin,
              bmax |-> BandgapMax, range |-> BandgapRange]

Loaded ==
    \* loadSpectrum as run calls it (line 813): the spectrum fields after it
    IF SpectrumLoaded
    THEN [ok |-> TRUE, fresh |-> FALSE, data |-> SolarSpectrumData, power |-> SolarPower,
          wmin |-> WavelengthMin, wmax |-> WavelengthMax, bmin |-> BandgapMin,
          bmax |-> BandgapMax, range |-> BandgapRange]
    ELSE LET ld == loadSpectrum(file)
         IN  IF ld.ok
             THEN [ok |-> TRUE, fresh |-> TRUE, data |-> file, power |-> ld.power,
                   wmin |-> ld.wmin, wmax |-> ld.wmax, bmin |-> ld.bmin,
                   bmax |-> ld.bmax, range |-> ld.range]
             ELSE [ok |-> FALSE, fresh |-> FALSE, data |-> file, power |-> SolarPower,
                   wmin |-> WavelengthMin, wmax |-> WavelengthMax, bmin |-> BandgapMin,
                   bmax |-> BandgapMax, range |-> BandgapRange]

LoadErrorIgnored(ld) ==
    \* a variant in which a load error does not stop run()
    FALSE

LoadFailed(ld) ==
    \* loadSpectrum's except clause ends the process (os._exit(1), line 579);
    \* run would return at once on SpectrumLoaded false (lines 814-819)
    ~ld.ok

run(done0, T1, SC1, TB1, TBT1) ==
    \* lines 803-924, with the parameters that calculate has just stored
    LET ld   == Loaded
        eng  == [data |-> ld.data, bmin |-> ld.bmin, bmax |-> ld.bmax,
                 power |-> ld.power, SC |-> SC1, kT |-> kTeVOf(T1)]
        done == IF ld.fresh THEN FALSE ELSE done0
        sw   == Sweep(eng, ld.range, SQ, Len(ld.range))
        tr   == calculateEfficiency(ld.data, ld.bmin, ld.bmax, ld.power, SC1,
                                    kTeVOf(T1), TB1, TBT1)
    IN  IF LoadFailed(ld)
        THEN [ld |-> ld, exited |-> TRUE, swept |-> FALSE, done |-> SQ_Done,
              Bandgap |-> Bandgap, Efficiency |-> Efficiency, SQ |-> SQ,
              Counter |-> 0, evals |-> 0, failed |-> FALSE, ret |-> None,
              Target |-> Target]
        ELSE IF ~done /\ sw.failed
        THEN [ld |-> ld, exited |-> FALSE, swept |-> TRUE, done |-> FALSE,
              Bandgap |-> sw.Bandgap, Efficiency |-> sw.Efficiency, SQ |-> sw.sq,
              Counter |-> sw.Counter, evals |-> sw.evals, failed |-> TRUE,
              ret |-> None, Target |-> Target]
        ELSE IF ~done
        THEN [ld |-> ld, exited |-> FALSE, swept |-> TRUE, done |-> TRUE,
              Bandgap |-> sw.Bandgap, Efficiency |-> sw.Efficiency, SQ |-> sw.sq,
              Counter |-> sw.Counter, evals |-> sw.evals, failed |-> FALSE,
              ret |-> Some(tr), Target |-> TargetOf(tr)]
        ELSE [ld |-> ld, exited |-> FALSE, swept |-> FALSE, done |-> TRUE,
              Bandgap |-> Bandgap, Efficiency |-> Efficiency, SQ |-> SQ,
              Counter |-> 0, evals |-> 0, failed |-> FALSE,
              ret |-> Some(tr), Target |-> TargetOf(tr)]

NotRun ==
    \* start, lines 767-774: the parameters are refused and run() is not called
    [exited |-> FALSE]

Calculate(TB, TBT, T, SC, Out) ==
    \* calculate(TB, TBT, T, SC, Out, useGUI = False), lines 221-281, with the
    \* start() it ends with (lines 759-797): run() and doSave() when the stored
    \* parameters pass the check of lines 761-766
    LET done0 == SweepInvalidated(SQ_Done, T, SC)
        T1    == TemperatureOf(T, TB)
        TB1   == TargetBandgapOf(TB)
        TBT1  == TargetBandgapTopOf(TBT, TB)
        SC1   == SolarConcentrationOf(SC)
        Out1  == OutputFilenameOf(Out)
        valid == ParametersValid(TB1, T1, SC1)
        this  == [NoCall EXCEPT !.op = "calculate", !.n = call.n + 1, !.TB = TB,
                  !.TBT = TBT, !.T = T, !.SC = SC, !.Out = Out,
                  !.doneBefore = SQ_Done, !.TBefore = Temperature,
                  !.SCBefore = SolarConcentration, !.TBBefore = Target_Bandgap,
                  !.TBTBefore = Target_Bandgap_Top,
                  !.sweepT = call.sweepT, !.sweepSC = call.sweepSC,
                  !.failedBefore = call.sweepFailed]
    IN  /\ alive
        /\ call.n < MaxCalls
        /\ \E r \in {IF valid THEN run(done0, T1, SC1, TB1, TBT1) ELSE NotRun} :
            /\ Temperature' = T1
            /\ kTeV' = kTeVOf(T1)
            /\ Target_Bandgap' = TB1
            /\ Target_Bandgap_Top' = TBT1
            /\ SolarConcentration' = SC1
            /\ OutputFilename' = Out1
            /\ file' = file
            /\ IF ~valid
               THEN /\ SQ_Done' = done0
                    /\ call' = this
                    /\ UNCHANGED << alive, SpectrumLoaded, SolarSpectrumData, SolarPower,
                                    WavelengthMin, WavelengthMax, BandgapMin, BandgapMax,
                                    BandgapRange, CounterMax, Counter, Bandgap,
                                    Efficiency, SQ, Target >>
               ELSE /\ alive' = ~r.exited
                    /\ SpectrumLoaded' = r.ld.ok
                    /\ SolarSpectrumData' = r.ld.data
                    /\ SolarPower' = r.ld.power
                    /\ WavelengthMin' = r.ld.wmin
                    /\ WavelengthMax' = r.ld.wmax
                    /\ BandgapMin' = r.ld.bmin
                    /\ BandgapMax' = r.ld.bmax
                    /\ BandgapRange' = r.ld.range
                    /\ CounterMax' = IF r.ld.fresh THEN Len(r.ld.range) ELSE CounterMax
                    /\ Counter' = r.Counter
                    /\ SQ_Done' = IF r.exited THEN done0 ELSE r.done
                    /\ Bandgap' = r.Bandgap
                    /\ Efficiency' = r.Efficiency
                    /\ SQ' = r.SQ
                    /\ Target' = r.Target
                    /\ call' = [this EXCEPT !.started = TRUE, !.exited = r.exited,
                                            !.sweepEvals = r.evals,
                                            !.sweepFailed = r.failed,
                                            !.solvedUnloaded =
                                                (r.evals > 0 \/ r.ret # None) /\ ~r.ld.ok,
                                            !.ret = r.ret,
                                            !.saved = ~r.exited /\ Out1 # "",
                                            !.sweepT = IF r.swept THEN T1 ELSE call.sweepT,
                                            !.sweepSC = IF r.swept THEN SC1 ELSE call.sweepSC]

TargetArgs ==
    \* <<TargetBandgap, TargetBandgapTop>>, in meV
    { << 1500, 0 >>, << 199, 0 >>, << 200, 0 >>, << 6000, 0 >>, << 6001, 0 >>,
      << 700001, 0 >>, << 1500, 200 >>, << 1500, 1500 >>, << 1500, 1600 >>,
      << 1500, 6000 >>, << 1500, 6001 >>, << 199, 200 >> }

TemperatureArgs == {99, 100, 400, 700, 701}

ConcentrationArgs == {0, 1, 1000, 1001}

Args ==
    \* the calls that differ from calculate(1.5, 0, 400, 1, None) in the target,
    \* in the temperature, in the concentration or in the output file name
    {a \in TargetArgs \X TemperatureArgs \X ConcentrationArgs \X {"", "out"} :
        Cardinality({i \in 1..4 : a[i] # << << 1500, 0 >>, 400, 1, "" >>[i]}) <= 1}

Next ==
    \E a \in Args :
        Calculate(a[1][1], a[1][2], a[2], a[3], a[4]) /\ UNCHANGED << DJ, TJ, GUI >>

Spec == Init /\ [][Next]_vars

CalculateEfficiency(Gap, GapTop) ==
    \* calculateEfficiency(Gap, GapTop) called on the engine, lines 596-649: it
    \* returns its tuple and stores nothing. Before the spectrum is loaded the
    \* domain is the constructor's and SolarSpectrumData does not exist yet
    \* (AttributeError at line 609, caught at line 638).
    /\ alive
    /\ call.n < MaxCalls
    /\ call' = [NoCall EXCEPT
                   !.op = "calculateEfficiency", !.n = call.n + 1,
                   !.TB = Gap, !.TBT = GapTop,
                   !.sweepT = call.sweepT, !.sweepSC = call.sweepSC,
                   !.solvedUnloaded = ~SpectrumLoaded,
                   !.sel = IF SpectrumLoaded /\ ~OutsideDomain(BandgapMin, BandgapMax, Gap)
                           THEN Selected(SolarSpectrumData, BandgapMin, BandgapMax,
                                         Gap, GapTop)
                           ELSE {},
                   !.ret = Some(IF SpectrumLoaded
                                THEN calculateEfficiency(SolarSpectrumData, BandgapMin,
                                         BandgapMax, SolarPower, SolarConcentration,
                                         kTeV, Gap, GapTop)
                                ELSE IF OutsideDomain(BandgapMin, BandgapMax, Gap)
                                     THEN ErrorOutcome("invalid bandgap")
                                     ELSE ErrorOutcome("AttributeError"))]
    /\ UNCHANGED << file, alive, SpectrumLoaded, SolarSpectrumData, SolarPower,
                    WavelengthMin, WavelengthMax, BandgapMin, BandgapMax,
                    BandgapRange, CounterMax, Counter, Temperature, kTeV,
                    SolarConcentration, Target_Bandgap, Target_Bandgap_Top,
                    OutputFilename, SQ_Done, Bandgap, Efficiency, SQ, Target,
                    DJ, TJ, GUI >>

-----------------------------------------------------------------------------
(* The solver at and around the limits of the bandgap domain.                *)

TableCoarse == Uniform(100, 3000, 200, 1)

TableDeepUV == Uniform(100, 2000, 100, 1)

TableEndCluster ==
    \* one row at 200 nm, the others within 10 nm of the last one
    [i \in 1..100 |-> << IF i = 1 THEN 2000 ELSE 2900 + i, 10 >>]

SolveTables == {TableFlat, TableDarkUV, TableCoarse, TableDeepUV, TableEndCluster}

GapArgs ==
    {BandgapMin - 1, BandgapMin, (BandgapMin + BandgapMax) \div 2, BandgapMax,
     BandgapMax + 1}

GapTopArgs ==
    \* no top bandgap, one below the middle of the domain and just above its
    \* lower limit, the upper limit and one outside the domain
    {0, BandgapMin + 50, BandgapMax, BandgapMax + 1}

InitSolve ==
    /\ file \in SolveTables
    /\ InitEngine
    /\ InitScripts

NextSolve ==
    \/ \E T \in {TemperatureLow, TemperatureDefault, TemperatureHigh} :
           /\ Calculate(BandgapDefault, 0, T, ConcentrationDefault, "")
           /\ UNCHANGED << DJ, TJ, GUI >>
    \/ \E Gap \in GapArgs, GapTop \in GapTopArgs : CalculateEfficiency(Gap, GapTop)

SpecSolve == InitSolve /\ [][NextSolve]_vars

-----------------------------------------------------------------------------
(* Loading: tables at and around each limit of lines 537-550.                *)

RowEdits ==
    \* TableFlat with one row moved back in wavelength or given another
    \* irradiance
    {WithRow(TableFlat, i, << TableFlat[i][1] - dw, irr >>) :
        i \in {1, 2, 50, 100}, dw \in {0, 100, 101}, irr \in {-1, 0, 10, 11}}

Spike(n, w0, dw, at, irr) ==
    [i \in 1..n |-> << w0 + (i - 1) * dw, IF i = at THEN irr ELSE 0 >>]

LoadTables ==
    RowEdits
    \cup {Uniform(n, 3000, 100, 1) : n \in {98, 99, 100, 101}}
    \cup {WithRow(TableFlat, 1, << w, 1 >>) : w \in {1999, 2000}}
    \cup {WithRow(TableFlat, 100, << w, 0 >>) : w \in {100000, 100001}}
    \cup {Spike(100, 3000, 10, at, 1) : at \in {1, 50}}
    \cup {Spike(101, 3000, 2, 50, 5)}
    \cup {Uniform(100, 3000, 10, 0)}
    \cup {Uniform(n, 3000, 100, 10) : n \in {100, 101, 102}}
    \cup {Uniform(n, 3000, 2, 10) : n \in {100, 101, 102}}

InitLoad ==
    /\ file \in LoadTables
    /\ InitEngine
    /\ InitScripts

NextLoad ==
    /\ Calculate(BandgapDefault, 0, TemperatureDefault, ConcentrationDefault, "")
    /\ UNCHANGED << DJ, TJ, GUI >>

SpecLoad == InitLoad /\ [][NextLoad]_vars

-----------------------------------------------------------------------------
(* The sweep at the limits of temperature and concentration, on a spectrum   *)
(* in the visible and on one in the far infrared.                            *)

TableFarIR ==
    \* 100 rows from 8938.7 nm to 9928.7 nm, 1 W/m2/nm each (990 W/m2)
    Uniform(100, 89387, 100, 1)

TableShortIR ==
    \* 2000 nm to 2495 nm: at 700 K the first two samples of the sweep have the
    \* same efficiency
    Uniform(100, 20000, 50, 1)

SweepTables == {TableFlat, TableFarIR, TableShortIR}

InitSweep ==
    /\ file \in SweepTables
    /\ InitEngine
    /\ InitScripts

NextSweep ==
    \E T \in {TemperatureLow, TemperatureDefault, 400, TemperatureHigh},
       SC \in {ConcentrationLow, ConcentrationHigh} :
        Calculate(BandgapDefault, 0, T, SC, "") /\ UNCHANGED << DJ, TJ, GUI >>

SpecSweep == InitSweep /\ [][NextSweep]_vars

-----------------------------------------------------------------------------
(* The multijunction scripts ShockleyQueisserDJ.py and ShockleyQueisserTJ.py. *)
(* Each drives one engine in command-line mode at 300 K and 1 sun: one        *)
(* calculate() per sub-cell, the cell below receiving the bandgap of the cell *)
(* above as its top bandgap, then the series combination of the collected     *)
(* curves.  Sample indices count from 1 here (from 0 in the scripts); cc, ccx, *)
(* jj and jjx keep the scripts' values.                                       *)

engine ==
    << file, alive, SpectrumLoaded, SolarSpectrumData, SolarPower, WavelengthMin,
       WavelengthMax, BandgapMin, BandgapMax, BandgapRange, CounterMax, Counter,
       Temperature, kTeV, SolarConcentration, Target_Bandgap, Target_Bandgap_Top,
       OutputFilename, SQ_Done, Bandgap, Efficiency, SQ, Target, call >>

SeriesCurrentMostNegative(tJ, aJ) ==
    \* a variant that keeps the most negative current
    IF aJ < tJ THEN aJ ELSE tJ

SeriesCurrent(tJ, aJ) ==
    \* DJ lines 83-85, TJ lines 82-84, for a cell after the first: the current
    \* of the cell replaces tJ when it is greater
    IF aJ > tJ THEN aJ ELSE tJ

Held(a, len, nn) ==
    \* DJ lines 81 and 84: a[nn] if (nn < len(aV[cc])) else a[len(aV[cc]) - 1]
    IF nn <= len THEN a[nn] ELSE a[len]

SeriesEfficiency(aVx, aJx) ==
    \* DJ lines 90-92, TJ lines 89-91: -100 * np.min(aJx * aVx) over
    \* 0.1 * SolarPower * SolarConcentration
    EfficiencyOf(-MinProduct(aVx, [k \in DOMAIN aJx |-> aJx[k] \div 10], Len(aVx)),
                 SolarPower, SolarConcentration)

DJIndexError(aV, aJ, nn) ==
    \* line 83 reads aJ[1][nn] whatever the length of that curve; lines 81 and
    \* 84 read the last sample of a curve that has none
    \/ nn > Len(aJ[2])
    \/ (nn > Len(aV[1]) /\ Len(aV[1]) = 0)

DJSampleOfTop(aV, aJ, nn) ==
    \* a variant that takes the sample of the top cell alone
    << Held(aV[1], Len(aV[1]), nn), Held(aJ[1], Len(aV[1]), nn) >>

DJSample(aV, aJ, nn) ==
    \* lines 77-87, one sample of the combined curve: << tV, tJ >>
    << Held(aV[1], Len(aV[1]), nn) + Held(aV[2], Len(aV[2]), nn),
       SeriesCurrent(Held(aJ[1], Len(aV[1]), nn), Held(aJ[2], Len(aV[2]), nn)) >>

DJSeries(d) ==
    \* lines 72-100: the combination over the samples of the reference curve;
    \* an exception leaves the pair without efficiency (the bare except)
    LET n    == Len(d.aV[d.ccx + 1])
        bad  == {nn \in 1..n : DJIndexError(d.aV, d.aJ, nn)}
        last == IF bad = {} THEN n ELSE SetMin(bad) - 1
        aVx  == [nn \in 1..last |-> DJSample(d.aV, d.aJ, nn)[1]]
        aJx  == [nn \in 1..last |-> DJSample(d.aV, d.aJ, nn)[2]]
        aEff == SeriesEfficiency(aVx, aJx)
    IN  IF bad # {}
        THEN [d EXCEPT !.aVx = aVx, !.aJx = aJx, !.at = "IndexError"]
        ELSE IF n = 0
        \* np.min of an empty array
        THEN [d EXCEPT !.aVx = aVx, !.aJx = aJx, !.at = "ValueError"]
        ELSE [d EXCEPT !.aVx = aVx, !.aJx = aJx, !.aEff = aEff,
                       !.EffMax = IF aEff > d.EffMax THEN aEff ELSE @,
                       !.GapTopMax = IF aEff > d.EffMax THEN d.GapT ELSE @,
                       !.GapBotMax = IF aEff > d.EffMax THEN d.GapB ELSE @,
                       !.at = "combined"]

DJCollect(d, TB, tg) ==
    \* lines 62-69, after the calculate() of the cell d.cc; tg is the Target_*
    \* it left.  Target_VOC is still None when no target solve was ever made:
    \* the comparison of line 64 then raises TypeError for the second cell
    LET take == (d.cc = 0) \/ ((d.cc > 0) /\ (tg.VOC[1] < d.aVOCx))
    IN  IF tg.VOC = None /\ d.cc = 0
        THEN [d EXCEPT !.aV = Append(@, << >>), !.aJ = Append(@, << >>),
                       !.aVOCx = Unset, !.ccx = 0, !.cc = 1, !.TBT = TB]
        ELSE IF tg.VOC = None \/ d.aVOCx = Unset
        THEN [d EXCEPT !.aV = Append(@, << >>), !.aJ = Append(@, << >>),
                       !.at = "TypeError"]
        ELSE [d EXCEPT !.aV = Append(@, tg.Voltage[1]),
                       !.aJ = Append(@, tg.Current[1]),
                       !.aVOCx = IF take THEN tg.VOC[1] ELSE @,
                       !.ccx = IF take THEN d.cc ELSE @,
                       !.cc = @ + 1, !.TBT = TB]

DJCell(GapT, GapB) ==
    \* one pass of the loop of lines 51-70 for the pair (GapT, GapB); its first
    \* pass follows the initialisation of lines 42-50
    LET d  == IF DJ.at = "cells" THEN DJ
              ELSE [NoDJ EXCEPT !.GapT = GapT, !.GapB = GapB, !.at = "cells",
                                !.EffMax = DJ.EffMax, !.GapTopMax = DJ.GapTopMax,
                                !.GapBotMax = DJ.GapBotMax]
        TB == IF d.cc = 0 THEN d.GapT ELSE d.GapB
    IN  /\ TJ.at = "idle"
        /\ DJ.at # "TypeError"
        /\ d.GapT = GapT /\ d.GapB = GapB
        /\ d.cc < 2
        /\ Calculate(TB, d.TBT, TemperatureDefault, ConcentrationDefault, "")
        /\ DJ' = IF alive' THEN DJCollect(d, TB, Target') ELSE DJ
        /\ UNCHANGED << TJ, GUI >>

DJCombine ==
    /\ alive
    /\ DJ.at = "cells" /\ DJ.cc = 2
    /\ DJ' = DJSeries(DJ)
    /\ UNCHANGED << engine, TJ, GUI >>

DJPairs ==
    \* << GapT, GapB >> in meV: values of np.arange(0.25, 3.25, 0.05) with
    \* GapT > GapB, as the loops of lines 38-40 pair them
    { << 1550, 1500 >>, << 1550, 1450 >>, << 1500, 1450 >>, << 1900, 1400 >>,
      << 1400, 900 >>, << 3200, 250 >> }

DJSamePairs ==
    \* the procedure of lines 45-100 applied to two cells of one bandgap
    { << 1500, 1500 >>, << 1400, 1400 >> }

TJCells ==
    \* lines 28-29: << bandgap, top bandgap >> of the top, middle and bottom cell
    << << 1900, 0 >>, << 1400, 1900 >>, << 900, 1400 >> >>

TJIndexError(aV, aJ, ii) ==
    \* lines 79 and 81 read aV[jj][ii] and aJ[jj][ii] of every cell
    \E jj \in DOMAIN aV : ii > Len(aV[jj])

RECURSIVE TJCurrent(_, _, _)
TJCurrent(aJ, ii, jj) ==
    \* lines 81-83 after the cells 0..jj-1
    IF jj = 1 THEN aJ[1][ii]
    ELSE SeriesCurrent(TJCurrent(aJ, ii, jj - 1), aJ[jj][ii])

RECURSIVE TJVoltage(_, _, _)
TJVoltage(aV, ii, jj) ==
    \* line 79
    IF jj = 0 THEN 0 ELSE TJVoltage(aV, ii, jj - 1) + aV[jj][ii]

TJSeries(t) ==
    \* lines 72-91: nothing catches an exception here, the script ends on it
    LET n    == Len(t.aV[t.jjx + 1])
        bad  == {ii \in 1..n : TJIndexError(t.aV, t.aJ, ii)}
        last == IF bad = {} THEN n ELSE SetMin(bad) - 1
        aVx  == [ii \in 1..last |-> TJVoltage(t.aV, ii, Len(t.aV))]
        aJx  == [ii \in 1..last |-> TJCurrent(t.aJ, ii, Len(t.aJ))]
    IN  IF bad # {}
        THEN [t EXCEPT !.aVx = aVx, !.aJx = aJx, !.at = "IndexError"]
        ELSE IF n = 0
        THEN [t EXCEPT !.aVx = aVx, !.aJx = aJx, !.at = "ValueError"]
        ELSE [t EXCEPT !.aVx = aVx, !.aJx = aJx,
                       !.aEff = Some(SeriesEfficiency(aVx, aJx)), !.at = "combined"]

TJCollect(t, tg) ==
    \* lines 56-67.  The engine of this script prints its reports (verbose is
    \* left True): after a call that made no target solve, line 791 formats
    \* Target_Efficiency = None and raises TypeError
    LET take == (t.jj = 0) \/ ((t.jj > 0) /\ (tg.VOC[1] < t.aVOCx))
    IN  IF tg.VOC = None
        THEN [t EXCEPT !.at = "TypeError"]
        ELSE [t EXCEPT !.aJSC = Append(@, tg.JSC[1]),
                       !.aVOC = Append(@, tg.VOC[1]),
                       !.aFF = Append(@, tg.FF[1]),
                       !.aV = Append(@, tg.Voltage[1]),
                       !.aJ = Append(@, tg.Current[1]),
                       !.aVOCx = IF take THEN tg.VOC[1] ELSE @,
                       !.jjx = IF take THEN t.jj ELSE @,
                       !.jj = @ + 1, !.at = "cells"]

TJCell ==
    \* one pass of the loop of lines 44-69
    /\ DJ.at = "idle"
    /\ TJ.at \in {"idle", "cells"}
    /\ TJ.jj < Len(TJCells)
    /\ Calculate(TJCells[TJ.jj + 1][1], TJCells[TJ.jj + 1][2], TemperatureDefault,
                 ConcentrationDefault, "")
    /\ TJ' = IF alive' THEN TJCollect(TJ, Target') ELSE TJ
    /\ UNCHANGED << DJ, GUI >>

TJCombine ==
    /\ alive
    /\ TJ.at = "cells" /\ TJ.jj = Len(TJCells)
    /\ TJ' = TJSeries(TJ)
    /\ UNCHANGED << engine, DJ, GUI >>

TableWide(dw) ==
    \* from 300 nm in steps of about 12 nm: the three bandgaps of the triple
    \* junction are in the domain
    Uniform(100, 3000, dw, 1)

TableNearIR(w0, irr) ==
    \* a hundred rows 1 nm apart from about 789 nm, the irradiance 1 W/m2/nm in
    \* the first eleven and irr in the others
    [i \in 1..100 |-> << w0 + (i - 1) * 10, IF i <= 11 THEN 1 ELSE irr >>]

JunctionTables ==
    {TableFlat, TableDarkUV, TableWide(119), TableWide(122),
     TableNearIR(7890, 10), TableNearIR(7893, 6)}

InitJunction ==
    /\ file \in JunctionTables
    /\ InitEngine
    /\ InitScripts

NextJunction ==
    \/ \E p \in DJPairs \cup DJSamePairs : DJCell(p[1], p[2])
    \/ DJCombine
    \/ TJCell
    \/ TJCombine

SpecJunction == InitJunction /\ [][NextJunction]_vars

-----------------------------------------------------------------------------
(* The graphical mode.  calculate(useGUI = True) opens the window and stays  *)
(* in the Tk main loop; the Calculate button, the Return key and the popup   *)
(* menu call start() on the UI thread, which starts run() in a               *)
(* CalculationThread; the timer callback monitorCalculation polls it.  The   *)
(* UI callbacks run one at a time, the worker thread runs beside them.       *)

MaxRequests == 3

isRunningNever(g) ==
    \* a variant that never finds a calculation in progress
    [g EXCEPT !.running = FALSE]

isRunning(g) ==
    \* lines 283-293: the object after the call, whose running is the value
    \* returned; a thread that has ended is forgotten
    IF g.thread = "None" THEN g
    ELSE IF g.thread # "alive" THEN [g EXCEPT !.thread = "None", !.running = FALSE]
    ELSE g

CalculateGUI(TB, TBT, T, SC, Out) ==
    \* calculate(TB, TBT, T, SC, Out, useGUI = True) with Tk present, lines
    \* 221-281, up to the main loop of startGUI (lines 309-496)
    /\ alive
    /\ ~GUI.GUIstarted
    /\ SQ_Done' = SweepInvalidated(SQ_Done, T, SC)
    /\ Temperature' = TemperatureOf(T, TB)
    /\ kTeV' = kTeVOf(TemperatureOf(T, TB))
    /\ Target_Bandgap' = TargetBandgapOf(TB)
    /\ Target_Bandgap_Top' = TargetBandgapTopOf(TBT, TB)
    /\ SolarConcentration' = SolarConcentrationOf(SC)
    /\ OutputFilename' = OutputFilenameOf(Out)
    /\ GUI' = [GUI EXCEPT !.useGUI = TRUE, !.GUIstarted = TRUE]
    /\ call' = [NoCall EXCEPT !.op = "startGUI", !.TB = TB, !.TBT = TBT, !.T = T,
                              !.SC = SC, !.Out = Out]
    /\ UNCHANGED << file, alive, SpectrumLoaded, SolarSpectrumData, SolarPower,
                    WavelengthMin, WavelengthMax, BandgapMin, BandgapMax,
                    BandgapRange, CounterMax, Counter, Bandgap, Efficiency, SQ,
                    Target, DJ, TJ >>

EditAcceptedAnyNumber(edit, low, high) ==
    \* a variant that takes every number, whatever the limits
    edit # None

EditAccepted(edit, low, high) ==
    \* float(strT) succeeded and the value is inside the limits
    edit # None /\ edit[1] >= low /\ edit[1] <= high

StartRequest(SCEdit, TargetEdit, TargetTopEdit, TemperatureEdit) ==
    \* the history of a start() in the window
    [NoCall EXCEPT !.op = "start", !.n = call.n + 1,
                   !.edits = << SCEdit, TargetEdit, TargetTopEdit, TemperatureEdit >>,
                   !.doneBefore = SQ_Done, !.TBefore = Temperature,
                   !.SCBefore = SolarConcentration, !.TBBefore = Target_Bandgap,
                   !.TBTBefore = Target_Bandgap_Top,
                   !.workerAlive = GUI.workers > 0,
                   !.sweepT = call.sweepT, !.sweepSC = call.sweepSC]

StartRefused(g, SCEdit, TargetEdit, TargetTopEdit, TemperatureEdit) ==
    \* lines 680-682
    /\ GUI' = g
    /\ call' = StartRequest(SCEdit, TargetEdit, TargetTopEdit, TemperatureEdit)
    /\ UNCHANGED << Temperature, kTeV, SolarConcentration, Target_Bandgap,
                    Target_Bandgap_Top, SQ_Done >>

StartWorker(g, SCEdit, TargetEdit, TargetTopEdit, TemperatureEdit, TB1) ==
    \* lines 684-756; TB1 is the target bandgap after its edit was read
    /\ SolarConcentration' =
           IF EditAccepted(SCEdit, ConcentrationLow, ConcentrationHigh)
           THEN SCEdit[1] ELSE SolarConcentration
    /\ Target_Bandgap' = TB1
    /\ Target_Bandgap_Top' =
           IF EditAccepted(TargetTopEdit, BandgapLow, BandgapHigh)
              /\ TargetTopEdit[1] > TB1
           THEN TargetTopEdit[1] ELSE Target_Bandgap_Top
    /\ Temperature' =
           IF EditAccepted(TemperatureEdit, TemperatureLow, TemperatureHigh)
           THEN TemperatureEdit[1] ELSE Temperature
    /\ kTeV' =
           IF EditAccepted(TemperatureEdit, TemperatureLow, TemperatureHigh)
           THEN kTeVOf(TemperatureEdit[1]) ELSE kTeV
    /\ SQ_Done' =
           IF \/ /\ EditAccepted(SCEdit, ConcentrationLow, ConcentrationHigh)
                 /\ SCEdit[1] # SolarConcentration
              \/ /\ EditAccepted(TemperatureEdit, TemperatureLow, TemperatureHigh)
                 /\ TemperatureEdit[1] # Temperature
           THEN FALSE ELSE SQ_Done
    \* lines 750-756: the thread starts and monitorCalculation, finding it
    \* alive, arms the timer
    /\ GUI' = [g EXCEPT !.running = TRUE, !.thread = "alive",
                        !.threadfinish = "updatePlot",
                        !.workers = g.workers + 1, !.timers = g.timers + 1,
                        !.started = g.started + 1]
    /\ call' = [StartRequest(SCEdit, TargetEdit, TargetTopEdit, TemperatureEdit)
                    EXCEPT !.started = TRUE]

OnStart(SCEdit, TargetEdit, TargetTopEdit, TemperatureEdit) ==
    \* onStart / onEnter, lines 1103-1109: start() in the window (lines
    \* 678-756) with the texts of the four entry fields, None for a text
    \* that float() refuses
    /\ alive
    /\ GUI.useGUI /\ GUI.GUIstarted
    /\ call.n < MaxRequests
    /\ IF isRunning(GUI).running
       THEN StartRefused(isRunning(GUI), SCEdit, TargetEdit, TargetTopEdit,
                         TemperatureEdit)
       ELSE StartWorker(isRunning(GUI), SCEdit, TargetEdit, TargetTopEdit,
                        TemperatureEdit,
                        IF EditAccepted(TargetEdit, BandgapLow, BandgapHigh)
                        THEN TargetEdit[1] ELSE Target_Bandgap)
    /\ UNCHANGED << file, alive, SpectrumLoaded, SolarSpectrumData, SolarPower,
                    WavelengthMin, WavelengthMax, BandgapMin, BandgapMax,
                    BandgapRange, CounterMax, Counter, OutputFilename, Bandgap,
                    Efficiency, SQ, Target, DJ, TJ >>

WorkerRun ==
    \* CalculationThread.run, lines 122-124: run() on the engine (lines
    \* 803-924) for a thread that is alive, up to the end of the thread
    /\ alive
    /\ GUI.workers > 0
    /\ \E r \in {run(SQ_Done, Temperature, SolarConcentration, Target_Bandgap,
                      Target_Bandgap_Top)} :
        /\ alive' = ~r.exited
        /\ SpectrumLoaded' = r.ld.ok
        /\ SolarSpectrumData' = r.ld.data
        /\ SolarPower' = r.ld.power
        /\ WavelengthMin' = r.ld.wmin
        /\ WavelengthMax' = r.ld.wmax
        /\ BandgapMin' = r.ld.bmin
        /\ BandgapMax' = r.ld.bmax
        /\ BandgapRange' = r.ld.range
        /\ CounterMax' = IF r.ld.fresh THEN Len(r.ld.range) ELSE CounterMax
        /\ Counter' = r.Counter
        /\ SQ_Done' = IF r.exited THEN SQ_Done ELSE r.done
        /\ Bandgap' = r.Bandgap
        /\ Efficiency' = r.Efficiency
        /\ SQ' = r.SQ
        /\ Target' = r.Target
        /\ call' = [NoCall EXCEPT !.op = "run", !.n = call.n, !.started = TRUE,
                                  !.exited = r.exited, !.sweepEvals = r.evals,
                                  !.sweepFailed = r.failed, !.ret = r.ret,
                                  !.workerAlive = TRUE,
                                  !.sweepT = IF r.swept THEN Temperature ELSE call.sweepT,
                                  !.sweepSC = IF r.swept THEN SolarConcentration
                                              ELSE call.sweepSC]
    /\ GUI' = [GUI EXCEPT !.workers = GUI.workers - 1,
                          !.thread = IF GUI.workers = 1 THEN "ended" ELSE GUI.thread]
    /\ UNCHANGED << file, Temperature, kTeV, SolarConcentration, Target_Bandgap,
                    Target_Bandgap_Top, OutputFilename, DJ, TJ >>

MonitorRearmed(g) ==
    \* a variant whose timer is armed again after the calculation has ended
    [g EXCEPT !.running = FALSE,
              !.threadfinish = "None",
              !.plots = IF g.threadfinish = "None" THEN g.plots ELSE g.plots + 1]

MonitorStopped(g) ==
    \* lines 653-663: setRunning(False), then updatePlot through threadfinish,
    \* which is forgotten; the return of line 663 arms no timer
    [g EXCEPT !.running = FALSE, !.timers = g.timers - 1,
              !.threadfinish = "None",
              !.plots = IF g.threadfinish = "None" THEN g.plots ELSE g.plots + 1]

MonitorCalculation ==
    \* monitorCalculation as the timer calls it, lines 651-675: it arms the
    \* timer again while the calculation runs (line 670)
    /\ alive
    /\ GUI.timers > 0
    /\ GUI' = IF isRunning(GUI).running THEN isRunning(GUI)
              ELSE MonitorStopped(isRunning(GUI))
    /\ call' = [NoCall EXCEPT !.op = "monitorCalculation", !.n = call.n,
                              !.sweepT = call.sweepT, !.sweepSC = call.sweepSC]
    /\ UNCHANGED << file, alive, SpectrumLoaded, SolarSpectrumData, SolarPower,
                    WavelengthMin, WavelengthMax, BandgapMin, BandgapMax,
                    BandgapRange, CounterMax, Counter, Temperature, kTeV,
                    SolarConcentration, Target_Bandgap, Target_Bandgap_Top,
                    OutputFilename, SQ_Done, Bandgap, Efficiency, SQ, Target,
                    DJ, TJ >>

EditArgs ==
    \* <<SolarConcentrationEdit, TargetEdit, TargetTopEdit, TemperatureEdit>>
    { << None, None, None, None >>,
      << Some(1000), None, None, None >>, << Some(1001), None, None, None >>,
      << None, Some(1400), None, None >>, << None, Some(6001), None, None >>,
      << None, None, Some(1600), None >>, << None, None, Some(0), None >>,
      << None, None, None, Some(300) >>, << None, None, None, Some(701) >> }

GUITables == {TableFlat, TableShort}

InitGUI ==
    /\ file \in GUITables
    /\ InitEngine
    /\ InitScripts

NextGUI ==
    \/ \E T \in {TemperatureDefault, 400} :
           CalculateGUI(1500, 0, T, ConcentrationDefault, "")
    \/ \E e \in EditArgs : OnStart(e[1], e[2], e[3], e[4])
    \/ WorkerRun
    \/ MonitorCalculation

SpecGUI == InitGUI /\ [][NextGUI]_vars

-----------------------------------------------------------------------------
(* The spectrum file changes on disk while the engine lives: command-line    *)
(* calls, then the window, on a file that another program rewrites.          *)

CacheTables == {TableFlat, TableDeepUV, TableShort}

ReplaceFile(table) ==
    \* the environment writes another table to SolarSpectrumAMX
    /\ alive
    /\ table # file
    /\ file' = table
    /\ call' = [call EXCEPT !.op = "replace"]
    /\ UNCHANGED << alive, SpectrumLoaded, SolarSpectrumData, SolarPower,
                    WavelengthMin, WavelengthMax, BandgapMin, BandgapMax,
                    BandgapRange, CounterMax, Counter, Temperature, kTeV,
                    SolarConcentration, Target_Bandgap, Target_Bandgap_Top,
                    OutputFilename, SQ_Done, Bandgap, Efficiency, SQ, Target,
                    DJ, TJ, GUI >>

InitCache ==
    /\ file \in CacheTables
    /\ InitEngine
    /\ InitScripts

NextCache ==
    \/ \E T \in {TemperatureDefault, 400} :
           /\ ~GUI.GUIstarted
           /\ Calculate(BandgapDefault, 0, T, ConcentrationDefault, "")
           /\ UNCHANGED << DJ, TJ, GUI >>
    \/ CalculateGUI(BandgapDefault, 0, TemperatureDefault, ConcentrationDefault, "")
    \/ \E T \in {None, Some(400)} : OnStart(None, None, None, T)
    \/ WorkerRun
    \/ MonitorCalculation
    \/ \E table \in CacheTables : ReplaceFile(table)

SpecCache == InitCache /\ [][NextCache]_vars

-----------------------------------------------------------------------------
(* Properties of calculate(), checked on the state each call leaves: call    *)
(* holds the arguments of the last call, the values stored before it and     *)
(* what run() did.                                                            *)

AfterCalculate == call.op = "calculate"

TemperatureInRange(T) == (T >= TemperatureLow) /\ (T <= TemperatureHigh)

BandgapInRange(TB) == (TB >= BandgapLow) /\ (TB <= BandgapHigh)

ConcentrationInRange(SC) == (SC >= ConcentrationLow) /\ (SC <= ConcentrationHigh)

\* C1: whenever SQ_Done is true, the stored sweep (Bandgap, Efficiency, SQ) was
\* computed with the Temperature and the SolarConcentration the engine now
\* holds: sweepT and sweepSC are the values the last sweep ran with.
C1_SweepMatchesParameters ==
    SQ_Done => (call.sweepT = Temperature /\ call.sweepSC = SolarConcentration)

C3_TemperatureFallback ==
    AfterCalculate =>
        /\ ~TemperatureInRange(call.T) =>
              (Temperature = TemperatureDefault /\ kTeV = kTeVOf(TemperatureDefault))
        /\ TemperatureInRange(call.T) => Temperature = call.T

\* C4: after calculate(), Target_Bandgap is the TargetBandgap argument when it
\* lies in [0.2, 6.0] eV and 1.1 eV otherwise, SolarConcentration is the argument
\* when it lies in [1, 1000] and 1 otherwise, and the call returned: the only
\* way it ends the process is a spectrum file that does not load.
C4_TargetAndConcentrationFallback ==
    AfterCalculate =>
        /\ Target_Bandgap = (IF BandgapInRange(call.TB) THEN call.TB ELSE BandgapDefault)
        /\ SolarConcentration =
              (IF ConcentrationInRange(call.SC) THEN call.SC ELSE ConcentrationDefault)
        /\ call.exited => ~loadSpectrum(file).ok

C4_Witness ==
    /\ AfterCalculate
    /\ ~BandgapInRange(call.TB) /\ Target_Bandgap = BandgapDefault
    /\ call.started /\ ~call.exited /\ call.ret # None

\* C5: after calculate(), the stored Target_Bandgap_Top is 0 or greater than
\* the stored Target_Bandgap.
C5_TopZeroOrAboveTarget ==
    AfterCalculate => (Target_Bandgap_Top = 0 \/ Target_Bandgap_Top > Target_Bandgap)

\* C10: once the spectrum has failed to load the process is over: that call
\* evaluated no sweep sample, made no target solve and wrote no output, no call
\* follows it, and no solver evaluation ever happens with SpectrumLoaded false.
C10_NothingAfterLoadFailure ==
    /\ ~call.solvedUnloaded
    /\ (call.sweepEvals > 0 \/ call.ret # None \/ call.saved) => SpectrumLoaded
    /\ call.exited => (~alive /\ ~SpectrumLoaded /\ Target = NoTarget)
    /\ ~alive => call.exited

C10_Witness ==
    /\ ~alive
    /\ call.exited
    /\ ~DataConsistent(file)

-----------------------------------------------------------------------------
(* Properties of calculateEfficiency, checked on what the last call          *)
(* returned (call.ret), for a direct call and for the target solve of run(). *)

IsErrorOutcome(r) ==
    /\ r.strRet # "None"
    /\ r.Eff = 0 /\ r.VOC = 0 /\ r.JSC = 0 /\ r.FF = 0 /\ r.Vm = 0 /\ r.Jm = 0
    /\ r.Voltage = << >> /\ r.Current = << >>

\* C6: a solve whose bandgap is below BandgapMin or above BandgapMax returns
\* the error outcome of the domain test (error string set, scalars 0, empty
\* voltage and current arrays), whatever the top bandgap; it always returns.
C6_OutOfDomainIsError ==
    /\ (call.op = "calculateEfficiency"
        /\ (call.TB < BandgapMin \/ call.TB > BandgapMax))
       => (call.ret # None /\ IsErrorOutcome(call.ret[1])
           /\ call.ret[1].strRet = "invalid bandgap")
    /\ (call.op = "calculate" /\ call.ret # None
        /\ (Target_Bandgap < BandgapMin \/ Target_Bandgap > BandgapMax))
       => (IsErrorOutcome(call.ret[1]) /\ call.ret[1].strRet = "invalid bandgap")

C6_Witness ==
    /\ call.op = "calculateEfficiency"
    /\ SpectrumLoaded
    /\ call.TB = BandgapMax + 1
    /\ call.ret # None /\ IsErrorOutcome(call.ret[1])

\* C7: on a loaded spectrum, a solve at exactly BandgapMin or exactly
\* BandgapMax with no top bandgap returns a result without error.
C7_LimitsSolve ==
    (/\ call.op = "calculateEfficiency"
     /\ SpectrumLoaded
     /\ call.TB \in {BandgapMin, BandgapMax}
     /\ call.TBT = 0)
    => (call.ret # None /\ call.ret[1].strRet = "None")

-----------------------------------------------------------------------------
(* Properties of loadSpectrum, checked after the first calculate() on a      *)
(* table; the conditions are written on the rows of the file.                *)

RowCountOk == Len(file) >= MinRows

WavelengthsOk ==
    \A i \in 1..Len(file) : file[i][1] >= WavelengthLow /\ file[i][1] <= WavelengthHigh

IrradiancesOk ==
    \A i \in 1..Len(file) : file[i][2] >= 0 /\ file[i][2] <= IrradianceHigh

StrictlyIncreasing ==
    \A i \in 1..(Len(file) - 1) : file[i][1] < file[i + 1][1]

RowsOk == RowCountOk /\ WavelengthsOk /\ IrradiancesOk /\ StrictlyIncreasing

\* C8: after calculate(), the spectrum is not loaded when the table has fewer
\* than 100 rows, wavelengths that are not strictly increasing, a wavelength
\* outside [200, 10000] nm or an irradiance outside [0, 10]; and it is loaded
\* when the table breaks none of these and its total power is within the
\* limits of line 550.
C8_LoadedIffConditions ==
    (AfterCalculate /\ call.started) =>
        /\ ~RowsOk => ~SpectrumLoaded
        /\ (RowsOk /\ SolarPowerOf(file) >= PowerLow /\ SolarPowerOf(file) <= PowerHigh)
              => SpectrumLoaded

-----------------------------------------------------------------------------
(* Properties of the sweep.                                                  *)

\* C11: after a calculate() with an in-range temperature and concentration on
\* a loaded spectrum, every efficiency recorded by the sweep and the reported
\* SQ_Efficiency lie in [0, 100] percent.
C11_EfficiencyWithinPercent ==
    (AfterCalculate /\ SpectrumLoaded
     /\ TemperatureInRange(call.T) /\ ConcentrationInRange(call.SC))
    => /\ \A k \in DOMAIN Efficiency : Efficiency[k] >= 0 /\ Efficiency[k] <= 100
       /\ SQ.Efficiency # None => (SQ.Efficiency[1] >= 0 /\ SQ.Efficiency[1] <= 100)

-----------------------------------------------------------------------------
(* Properties of the solver inside the domain.                               *)

SolvedHere(Gap, GapTop) ==
    \* the tuple calculateEfficiency returns on the engine as it is now
    calculateEfficiency(SolarSpectrumData, BandgapMin, BandgapMax, SolarPower,
                        SolarConcentration, kTeV, Gap, GapTop)

DomainGaps ==
    \* bandgaps of the domain: its limits, its middle and the sweep samples
    {BandgapMin, (BandgapMin + BandgapMax) \div 2, BandgapMax}
        \cup {BandgapRange[k] : k \in DOMAIN BandgapRange}

\* C12: a solve without top bandgap at a bandgap b1 of the domain returns a
\* short-circuit current at least as large as the one a solve at any larger
\* bandgap b2 of the domain returns, on the same spectrum and concentration.
C12_JscDecreasesWithBandgap ==
    (/\ call.op = "calculateEfficiency" /\ SpectrumLoaded
     /\ call.TBT = 0
     /\ call.ret[1].strRet = "None")
    => \A b2 \in DomainGaps :
           (b2 > call.TB /\ SolvedHere(b2, 0).strRet = "None")
               => call.ret[1].JSC >= SolvedHere(b2, 0).JSC

C12_Witness ==
    /\ call.op = "calculateEfficiency" /\ SpectrumLoaded
    /\ call.TBT = 0
    /\ call.ret[1].strRet = "None"
    /\ \E b2 \in DomainGaps :
           /\ b2 > call.TB
           /\ SolvedHere(b2, 0).strRet = "None"
           /\ call.ret[1].JSC > SolvedHere(b2, 0).JSC

-----------------------------------------------------------------------------
(* Properties of the series combination, checked on the state the scripts    *)
(* are left in.                                                               *)

DJCurrents(nn) ==
    \* the currents of the two sub-cells at the sample nn, the last one of a
    \* curve that is exhausted
    {Held(DJ.aJ[c], Len(DJ.aJ[c]), nn) : c \in 1..2}

TJCurrents(ii) ==
    {TJ.aJ[jj][ii] : jj \in DOMAIN TJ.aJ}

DJAttempted == DJ.at \in {"combined", "IndexError", "ValueError"}

\* C14: when the two sub-cells of a pair are solved, the two-junction
\* combination completes over every sample of the reference curve, whichever
\* curve is the shorter one, a curve that is exhausted contributing its last
\* voltage and its last current.
C14_ShorterCurveHeld ==
    (DJAttempted /\ Len(DJ.aV[1]) > 0 /\ Len(DJ.aV[2]) > 0)
    => /\ DJ.at = "combined"
       /\ Len(DJ.aVx) = Len(DJ.aV[DJ.ccx + 1])
       /\ Len(DJ.aJx) = Len(DJ.aV[DJ.ccx + 1])
       /\ \A nn \in DOMAIN DJ.aVx :
              /\ DJ.aVx[nn] = Held(DJ.aV[1], Len(DJ.aV[1]), nn)
                                  + Held(DJ.aV[2], Len(DJ.aV[2]), nn)
              /\ DJ.aJx[nn] \in DJCurrents(nn)

OpenCircuit(aV, aJ) ==
    \* the open-circuit voltage read on a sampled curve: the voltage of its
    \* last sample whose current is not positive
    LET S == {k \in DOMAIN aJ : aJ[k] <= 0}
    IN  aV[CHOOSE k \in S : \A j \in S : j <= k]

\* C15: the two-junction combination of two sub-cells of one bandgap, when the
\* cell is solved, completes with the second cell solved without spectral cut:
\* the two curves are the same, each combined sample has twice the voltage and
\* the same current, so the combined open-circuit voltage is twice that of the
\* single cell and the combined short-circuit current is that of the single cell.
C15_SameBandgapDoubles ==
    (DJAttempted /\ DJ.GapT = DJ.GapB /\ Len(DJ.aV[1]) > 0)
    => /\ DJ.at = "combined"
       /\ Target_Bandgap_Top = 0
       /\ DJ.aV[2] = DJ.aV[1] /\ DJ.aJ[2] = DJ.aJ[1]
       /\ Len(DJ.aVx) = Len(DJ.aV[1])
       /\ \A nn \in DOMAIN DJ.aVx :
              DJ.aVx[nn] = 2 * DJ.aV[1][nn] /\ DJ.aJx[nn] = DJ.aJ[1][nn]
       /\ OpenCircuit(DJ.aVx, DJ.aJx) = 2 * OpenCircuit(DJ.aV[1], DJ.aJ[1])
       /\ -DJ.aJx[1] = 10 * Target.JSC[1]

C15_Witness ==
    /\ DJ.at = "combined"
    /\ DJ.GapT = DJ.GapB
    /\ call.TBT = DJ.GapB
    /\ OpenCircuit(DJ.aVx, DJ.aJx) > 0
    /\ DJ.aJx[1] < 0

-----------------------------------------------------------------------------
(* Properties of the sweep loop of run().                                    *)

SeqMax(seq) ==
    \* the greatest element of a sequence of naturals, 0 when it is empty
    IF seq = << >> THEN 0
    ELSE CHOOSE m \in {seq[k] : k \in DOMAIN seq} : \A k \in DOMAIN seq : seq[k] <= m

FirstAt(seq, m) ==
    \* the first index at which the sequence has the value m
    CHOOSE k \in DOMAIN seq : seq[k] = m /\ \A j \in 1..(k - 1) : seq[j] # m

SampleAt(aGap, T, SC) ==
    \* the solve of the sweep sample aGap at the temperature and concentration
    \* of the sweep
    calculateEfficiency(SolarSpectrumData, BandgapMin, BandgapMax, SolarPower, SC,
                        kTeVOf(T), aGap, 0)

SweepStopped ==
    \* a calculate() call has returned after a sample of its sweep failed
    AfterCalculate /\ call.sweepFailed

StoppedCleanly ==
    /\ alive /\ ~call.exited
    /\ ~SQ_Done
    /\ call.ret = None
    /\ SampleAt(BandgapRange[call.sweepEvals], Temperature, SolarConcentration).strRet
           # "None"
    /\ Len(Bandgap) = call.sweepEvals - 1
    /\ Len(Efficiency) = call.sweepEvals - 1
    /\ \A k \in DOMAIN Bandgap :
           /\ Bandgap[k] = BandgapRange[k]
           /\ Efficiency[k] = SampleAt(Bandgap[k], Temperature, SolarConcentration).Eff
    /\ SQ.Efficiency = Some(SeqMax(Efficiency))
    /\ SQ.Bandgap = Some(IF Efficiency = << >> THEN 0
                         ELSE Bandgap[FirstAt(Efficiency, SeqMax(Efficiency))])

RestartedFromEmpty ==
    \* the arrays hold the samples of this call only, from the first of the range
    /\ call.sweepEvals >= 1
    /\ Len(Bandgap) = call.sweepEvals - (IF call.sweepFailed THEN 1 ELSE 0)
    /\ Len(Efficiency) = Len(Bandgap)
    /\ \A k \in DOMAIN Bandgap :
           /\ Bandgap[k] = BandgapRange[k]
           /\ Efficiency[k] = SampleAt(Bandgap[k], Temperature, SolarConcentration).Eff

\* C16: when a sample of the sweep fails, calculate() returns without raising,
\* the failed sample is not appended to Bandgap and Efficiency, SQ_Efficiency
\* and SQ_Bandgap hold the maximum over the samples solved before it (0 when
\* there is none), SQ_Done stays false, and the next calculate() sweeps again
\* from the first sample with empty arrays.
C16_FailedSweepStopsCleanly ==
    /\ SweepStopped => StoppedCleanly
    /\ (AfterCalculate /\ call.failedBefore /\ call.started) => RestartedFromEmpty

C16_Witness ==
    /\ SweepStopped
    /\ call.failedBefore
    /\ Len(Bandgap) > 1
    /\ SQ.Efficiency[1] > 0

\* C17: once the sweep is complete, SQ_Efficiency is the maximum of the
\* Efficiency array, SQ_Bandgap is the bandgap of the first, lowest, sample that
\* attains it, and SQ_JSC, SQ_VOC, SQ_FF, SQ_Vm, SQ_Jm, SQ_Voltage and SQ_Current
\* are what the solve of that sample returned in this sweep.
C17_ResultsOfBestSample ==
    SQ_Done =>
        /\ Bandgap = BandgapRange
        /\ Len(Efficiency) = Len(Bandgap)
        /\ SQ.Efficiency = Some(SeqMax(Efficiency))
        /\ SQ.Bandgap = Some(Bandgap[FirstAt(Efficiency, SeqMax(Efficiency))])
        /\ LET r == SampleAt(SQ.Bandgap[1], call.sweepT, call.sweepSC)
           IN  /\ r.strRet = "None"
               /\ SQ.Efficiency = Some(r.Eff)
               /\ SQ.JSC = Some(r.JSC) /\ SQ.VOC = Some(r.VOC) /\ SQ.FF = Some(r.FF)
               /\ SQ.Vm = Some(r.Vm) /\ SQ.Jm = Some(r.Jm)
               /\ SQ.Voltage = Some(r.Voltage)
               /\ SQ.Current = Some(Scaled(r.Current))

C17_Witness ==
    /\ SQ_Done
    /\ AfterCalculate /\ call.sweepEvals = Resolution
    /\ \E j \in DOMAIN Efficiency : \E k \in DOMAIN Efficiency :
           /\ j < k
           /\ Efficiency[j] = SeqMax(Efficiency) /\ Efficiency[k] = SeqMax(Efficiency)
           /\ SQ.Bandgap = Some(Bandgap[j])

-----------------------------------------------------------------------------
(* Properties of the wavelength selection of calculateEfficiency().          *)

SelectedHere(Gap, GapTop) ==
    Selected(SolarSpectrumData, BandgapMin, BandgapMax, Gap, GapTop)

aJ0Here(Gap, GapTop) ==
    \* 1000 * ln(aJ0) of lines 616-617 on the engine as it is now
    aJ0Of(SolarSpectrumData, kTeV, SetMin(SelectedHere(Gap, GapTop)),
          SetMax(SelectedHere(Gap, GapTop)))

SolvedInDomain ==
    /\ call.op = "calculateEfficiency" /\ SpectrumLoaded
    /\ ~OutsideDomain(BandgapMin, BandgapMax, call.TB)

\* C19: for a fixed bandgap and temperature the dark saturation current aJ0
\* of a solve is the same with a top bandgap as without one.
C19_DarkCurrentIgnoresTop ==
    (SolvedInDomain /\ call.ret[1].strRet = "None")
    => aJ0Here(call.TB, call.TBT) = aJ0Here(call.TB, 0)

TopCuts(Gap, GapTop) ==
    (GapTop > Gap) /\ (GapTop >= BandgapMin) /\ (GapTop <= BandgapMax)

LowerWavelength(Gap, GapTop) ==
    \* the smallest wavelength not below nmeV / GapTop when the top bandgap
    \* cuts, 0 in every other case
    IF TopCuts(Gap, GapTop) THEN (nmeV + GapTop - 1) \div GapTop ELSE 0

\* C20: a solve inside the domain keeps the samples whose wavelength lies in
\* [lower, nmeV / Bandgap], lower being nmeV / BandgapTop exactly when the top
\* bandgap is above the bandgap and inside the domain and 0 otherwise; a top
\* bandgap that does not cut gives the result of a solve without one.
C20_SelectionInterval ==
    SolvedInDomain
    => /\ call.sel = {i \in DOMAIN SolarSpectrumData :
                         /\ SolarSpectrumData[i][1] >= LowerWavelength(call.TB, call.TBT)
                         /\ SolarSpectrumData[i][1] <= nmeV \div call.TB}
       /\ ~TopCuts(call.TB, call.TBT) => call.ret[1] = SolvedHere(call.TB, 0)

C20_Witness ==
    /\ SolvedInDomain
    /\ TopCuts(call.TB, call.TBT) /\ call.TBT < BandgapMax
    /\ call.ret[1].strRet = "None"
    /\ call.sel # SelectedHere(call.TB, 0)
    /\ Cardinality(call.sel) > 2

-----------------------------------------------------------------------------
(* Properties of the worker thread of the window.                            *)

RefusedRequest == call.op = "start" /\ call.workerAlive

\* C18: in the window at most one calculation thread is alive at any time: a
\* Calculate request made while one is alive starts no thread and leaves
\* Temperature, SolarConcentration, the target bandgaps and SQ_Done alone.
C18_OneWorkerAtATime ==
    /\ GUI.workers <= 1
    /\ RefusedRequest
       => /\ ~call.started
          /\ Temperature = call.TBefore
          /\ SolarConcentration = call.SCBefore
          /\ Target_Bandgap = call.TBBefore
          /\ Target_Bandgap_Top = call.TBTBefore
          /\ SQ_Done = call.doneBefore

C18_Witness ==
    /\ RefusedRequest
    /\ GUI.workers = 1 /\ GUI.thread = "alive"
    /\ call.edits[4] = Some(TemperatureDefault)
    /\ Temperature # TemperatureDefault

-----------------------------------------------------------------------------
(* Properties of the completed sweep and of its grid.                        *)

SweepRecorded ==
    \* what a completed sweep leaves of its samples, their number aside
    /\ isIncSorted(Bandgap)
    /\ Bandgap[1] = BandgapMin
    /\ \A k \in DOMAIN Bandgap : Bandgap[k] >= BandgapMin /\ Bandgap[k] <= BandgapMax
    /\ \A k \in DOMAIN Bandgap :
           Efficiency[k] = SampleAt(Bandgap[k], call.sweepT, call.sweepSC).Eff
    /\ Len(Bandgap) = Len(Efficiency)
    /\ Len(Bandgap) = CounterMax

\* C21: a completed sweep records exactly Resolution samples: Bandgap is
\* strictly ascending from BandgapMin inside the domain, every sample was
\* solved without top bandgap, and Bandgap and Efficiency have the length
\* CounterMax.
C21_CompletedSweepSamples ==
    SQ_Done => (Len(Bandgap) = Resolution /\ SweepRecorded)

-----------------------------------------------------------------------------
(* Properties of the current-voltage characteristic.                         *)

SolvedCurve ==
    /\ call.op = "calculateEfficiency"
    /\ call.ret # None
    /\ call.ret[1].strRet = "None"

CurveShape(r) ==
    \* what a solved characteristic satisfies, the number of its samples and
    \* its end aside
    /\ Len(r.Voltage) = Len(r.Current)
    /\ isIncSorted(r.Voltage)
    /\ r.Voltage[1] = 0
    /\ r.Current[1] = -r.JSC
    /\ \A k \in 1..(Len(r.Current) - 1) : r.Current[k] <= r.Current[k + 1]

\* C22: a solved characteristic has VoltageSteps + 1 evenly spaced voltage
\* samples, strictly increasing from 0 to exactly the open-circuit voltage;
\* its current starts at -JSC, never decreases with the voltage and is never
\* positive.
C22_CurveEndsAtOpenCircuit ==
    SolvedCurve
    => /\ CurveShape(call.ret[1])
       /\ Len(call.ret[1].Voltage) = VoltageSteps + 1
       /\ call.ret[1].Voltage[Len(call.ret[1].Voltage)] = call.ret[1].VOC
       /\ \A k \in DOMAIN call.ret[1].Current : call.ret[1].Current[k] <= 0

-----------------------------------------------------------------------------
(* Properties of the progress counter.                                       *)

RanSweep == AfterCalculate /\ call.started /\ call.sweepEvals > 0

\* C23: the progress counter is 0 after a run that did not sweep, is the
\* number of sweep samples solved after a run that did, lies between 0 and
\* CounterMax in every state, and is CounterMax when the sweep completed.
C23_CounterCountsSamples ==
    /\ Counter >= 0 /\ Counter <= CounterMax
    /\ (AfterCalculate /\ call.started /\ call.sweepEvals = 0) => Counter = 0
    /\ RanSweep
       => /\ Counter = Len(Bandgap)
          /\ Counter = call.sweepEvals - (IF call.sweepFailed THEN 1 ELSE 0)
          /\ SQ_Done => Counter = CounterMax

C23_Witness ==
    /\ RanSweep /\ SQ_Done
    /\ Counter = CounterMax /\ Counter = Resolution
    /\ call.n > 1

-----------------------------------------------------------------------------
(* Properties of the loaded spectrum.                                        *)

\* C24: once the spectrum is loaded, no calculate() and no Calculate of the
\* window reads the file again or changes the spectrum data, SolarPower, the
\* bandgap domain, BandgapRange or CounterMax, and the loadSpectrum of a later
\* run does not reset SQ_Done.
C24_SpectrumLoadedOnce ==
    [][SpectrumLoaded
       => /\ SpectrumLoaded' /\ alive'
          /\ UNCHANGED << SolarSpectrumData, SolarPower, WavelengthMin,
                          WavelengthMax, BandgapMin, BandgapMax, BandgapRange,
                          CounterMax >>
          /\ (SQ_Done /\ call'.op = "run") => (SQ_Done' /\ call'.sweepEvals = 0)
          /\ (/\ SQ_Done /\ call'.op = "calculate" /\ call'.started
              /\ call'.T = Temperature /\ call'.SC = SolarConcentration)
             => (SQ_Done' /\ call'.sweepEvals = 0)]_vars

C24_Witness ==
    /\ SpectrumLoaded /\ alive
    /\ file = TableShort
    /\ call.op = "run" /\ call.started
    /\ SQ_Done

-----------------------------------------------------------------------------
(* Properties of the triple-junction combination.                            *)

TJAttempted ==
    TJ.jj = Len(TJCells) /\ TJ.at \in {"combined", "IndexError", "ValueError"}

\* C27: in the combination of the three cells every index that reads a
\* cell's voltage or current array is inside that array, whatever the lengths
\* of the three curves.
C27_TripleIndicesInBounds ==
    TJAttempted
    => \A ii \in 1..Len(TJ.aV[TJ.jjx + 1]) :
           \A jj \in DOMAIN TJ.aV : ii <= Len(TJ.aV[jj]) /\ ii <= Len(TJ.aJ[jj])

-----------------------------------------------------------------------------
(* Properties of the sweep kept from one call to the next.                   *)

\* C29: a calculate() call that runs, made when the sweep is complete and
\* whose Temperature and SolarConcentration after the fallbacks of lines 245
\* and 262 are the stored ones, evaluates no sweep sample and keeps the sweep,
\* also when the arguments themselves were out of range.
C29_EffectiveParametersKeepSweep ==
    [][(/\ SQ_Done
        /\ call'.op = "calculate" /\ call'.started
        /\ TemperatureOf(call'.T, call'.TB) = Temperature
        /\ SolarConcentrationOf(call'.SC) = SolarConcentration)
       => (/\ call'.sweepEvals = 0
           /\ SQ_Done'
           /\ UNCHANGED << Bandgap, Efficiency, SQ >>)]_vars

-----------------------------------------------------------------------------
(* Properties of the target results.                                         *)

\* C25: when a command-line calculate() call has returned on a loaded
\* spectrum, the target results are those of the solve of the stored
\* Target_Bandgap and Target_Bandgap_Top at the stored Temperature and
\* SolarConcentration (the error outcome when that solve fails), never the
\* values of an earlier call.
C25_TargetOfThisCall ==
    (AfterCalculate /\ alive /\ SpectrumLoaded)
    => Target = TargetOf(calculateEfficiency(SolarSpectrumData, BandgapMin,
                             BandgapMax, SolarPower, SolarConcentration, kTeV,
                             Target_Bandgap, Target_Bandgap_Top))

-----------------------------------------------------------------------------
(* Properties of the bandgap domain.                                         *)

\* C26: for every spectrum that loadSpectrum accepts, the bandgap domain is
\* not empty (BandgapMin < BandgapMax) and BandgapRange holds at least one
\* sample.
C26_DomainNotEmpty ==
    SpectrumLoaded => (BandgapMin < BandgapMax /\ Len(BandgapRange) >= 1)

-----------------------------------------------------------------------------
(* Properties of the polling of the worker thread.                           *)

PlottedNow == GUI'.plots > GUI.plots

PolledNow == call'.op = "monitorCalculation"

\* C28: in the window updatePlot is called only by a poll that finds no
\* worker thread alive, at most once for each thread started and never more
\* often than threads have ended, also when Calculate is pressed between the
\* end of a thread and the next poll; a poll that finds no calculation running
\* does not arm its timer again, and one that finds a thread alive does.
C28_PlotOncePerWorker ==
    [][/\ PlottedNow
          => (PolledNow /\ GUI.workers = 0 /\ GUI'.workers = 0
              /\ GUI'.plots = GUI.plots + 1)
       /\ GUI'.plots <= GUI'.started - GUI'.workers
       /\ (PolledNow /\ GUI.workers = 0) => GUI'.timers = GUI.timers - 1
       /\ (PolledNow /\ GUI.workers > 0) => GUI'.timers = GUI.timers]_vars

C28_Witness ==
    /\ call.op = "monitorCalculation"
    /\ GUI.started = 2 /\ GUI.workers = 0
    /\ GUI.plots = 1 /\ GUI.timers = 0
    /\ GUI.threadfinish = "None"

-----------------------------------------------------------------------------
(* Properties of the entry fields of the window.                             *)

StartedRequest == call.op = "start" /\ call.started

EditRefused(edit, low, high) ==
    \* the text is empty or not a number, or the number is outside the limits
    (edit = None) \/ (edit[1] < low) \/ (edit[1] > high)

\* C30: a Calculate of the window that starts a calculation leaves
\* SolarConcentration, Target_Bandgap, Target_Bandgap_Top and Temperature as
\* they were when the text of their entry field is empty, not a number or
\* out of range (for the top bandgap, also when it is not above the target
\* bandgap), and a positive Target_Bandgap_Top stays positive.
C30_RefusedEditKeepsParameter ==
    StartedRequest
    => /\ EditRefused(call.edits[1], ConcentrationLow, ConcentrationHigh)
          => SolarConcentration = call.SCBefore
       /\ EditRefused(call.edits[2], BandgapLow, BandgapHigh)
          => Target_Bandgap = call.TBBefore
       /\ (\/ EditRefused(call.edits[3], BandgapLow, BandgapHigh)
           \/ call.edits[3][1] <= Target_Bandgap)
          => Target_Bandgap_Top = call.TBTBefore
       /\ EditRefused(call.edits[4], TemperatureLow, TemperatureHigh)
          => Temperature = call.TBefore
       /\ call.TBTBefore > 0 => Target_Bandgap_Top > 0

C30_Witness ==
    /\ StartedRequest
    /\ call.edits[3] = Some(0)
    /\ call.TBTBefore > Target_Bandgap
    /\ Target_Bandgap_Top = call.TBTBefore
====
